---- MODULE Spec2Model ----
(***************************************************************************)
(* CoolData: the scanner (src/src/lexer.rs), the value model, renderer     *)
(* and recursive-descent parser (src/src/parser.rs) and the library entry  *)
(* points (src/src/lib.rs), as one state machine.                          *)
(*                                                                         *)
(* A character is a one-character string; a text is a sequence of          *)
(* characters. Cursors are 0-based as in the source.                       *)
(***************************************************************************)
EXTENDS Integers, Sequences, FiniteSets, TLC

VARIABLES
    content,    \* Tokenizer.content: the text being scanned
    index,      \* Tokenizer.index: character cursor
    line,       \* tokenize's local `line`
    col,        \* tokenize's local `col`
    tokens,     \* Tokenizer.tokens
    starts,     \* history: the value of `index` when each token was started
    lexResult,  \* what tokenize returned (st = "running" while in its loop)
    pidx,       \* Parser.index: token cursor
    stack,      \* the call stack of parse / parse_object / parse_list
    presult,    \* what Parser::parse returned (st = "panic": unreachable!())
    pass,       \* 1: parse(D); 2: the text written by save_to_file, parsed again
    first,      \* the result of pass 1, kept for pass 2
    access      \* the last call of a typed accessor on the parsed tree

vars == <<content, index, line, col, tokens, starts, lexResult,
          pidx, stack, presult, pass, first, access>>

lexVars == <<content, index, line, col, tokens, starts, lexResult>>

-----------------------------------------------------------------------------
(* Characters and character classes (char::is_digit(10), is_alphabetic,    *)
(* is_whitespace restricted to the alphabet of the inputs).                *)

NL == "\n"
QUOTE == "\""
BACKSLASH == "\\"
TAB == "\t"

Digit == {"0", "1", "2", "3", "4", "5", "6", "7", "8", "9"}

Alphabetic == {"a", "b", "c", "l", "n", "o", "t", "x", "y"}

Whitespace == {" ", TAB, NL}

-----------------------------------------------------------------------------
(* Tokens, locations and errors.                                           *)

\* Loc(col, line), lexer.rs:23
Loc(c, l) == [col |-> c, line |-> l]

\* Token(TokenType, Loc), lexer.rs:32; val is the text of Ident/Int/Float/String
Token(type, val, loc) == [type |-> type, val |-> val, loc |-> loc]

NoErr == [kind |-> "", what |-> "", got |-> <<>>, line |-> 0, col |-> 0]

\* io::Error::new(kind, message): `what` is the message's wording, `got` the
\* token kind it names, (line, col) the location it prints.
Error(kind, what, got, l, c) ==
    [kind |-> kind, what |-> what, got |-> got, line |-> l, col |-> c]

-----------------------------------------------------------------------------
(* The scanner, lexer.rs.                                                  *)

HasChar(text, i) == i < Len(text)

CharAt(text, i) == text[i + 1]

RECURSIVE NumberScan(_, _, _, _)
\* the while loop of parse_number: i is the cursor, buf the literal so far
NumberScan(text, i, buf, isFloat) ==
    IF HasChar(text, i) /\ (CharAt(text, i) \in Digit \/ CharAt(text, i) = ".")
    THEN IF CharAt(text, i) = "." /\ isFloat
         THEN [ok |-> FALSE, index |-> i, buf |-> buf, isFloat |-> isFloat]
         ELSE NumberScan(text, i + 1, Append(buf, CharAt(text, i)),
                         isFloat \/ CharAt(text, i) = ".")
    ELSE [ok |-> TRUE, index |-> i, buf |-> buf, isFloat |-> isFloat]

\* parse_number(line, col) with the cursor at `i`: the token and the column delta
ParseNumber(text, i, l, c) ==
    LET r == NumberScan(text, i + 1, <<CharAt(text, i)>>, FALSE)
        col_delta == Len(r.buf) - 1
    IN  IF r.ok
        THEN [ok |-> TRUE, index |-> r.index, d |-> col_delta + 1, err |-> NoErr,
              tok |-> Token(IF r.isFloat THEN "Float" ELSE "Int", r.buf, Loc(c, l))]
        ELSE [ok |-> FALSE, index |-> r.index, d |-> 0,
              err |-> Error("InvalidData", "DoublePeriod", <<>>, l, c),
              tok |-> Token("Int", r.buf, Loc(c, l))]

RECURSIVE StringScan(_, _, _)
\* the while loop of parse_string
StringScan(text, i, buf) ==
    IF HasChar(text, i) /\ CharAt(text, i) # QUOTE
    THEN IF CharAt(text, i) = NL
         THEN [ok |-> FALSE, index |-> i, buf |-> buf]
         ELSE StringScan(text, i + 1, Append(buf, CharAt(text, i)))
    ELSE [ok |-> TRUE, index |-> i, buf |-> buf]

\* parse_string(line, col): the closing consume()? fails at the end of the text
ParseString(text, i, l, c) ==
    LET r == StringScan(text, i + 1, <<>>)
        col_delta == Len(r.buf)
        tok == Token("String", r.buf, Loc(c, l))
    IN  IF ~r.ok
        THEN [ok |-> FALSE, index |-> r.index, d |-> 0, tok |-> tok,
              err |-> Error("InvalidInput", "UnallowedNewline", <<>>, l, c)]
        ELSE IF ~HasChar(text, r.index)
        THEN [ok |-> FALSE, index |-> r.index + 1, d |-> 0, tok |-> tok,
              err |-> Error("UnexpectedEof", "EndOfContent", <<>>, 0, 0)]
        ELSE [ok |-> TRUE, index |-> r.index + 1, d |-> col_delta + 1, tok |-> tok,
              err |-> NoErr]

RECURSIVE IdentScan(_, _, _)
\* the while loop of parse_ident
IdentScan(text, i, buf) ==
    IF /\ HasChar(text, i)
       /\ CharAt(text, i) \in Alphabetic
       /\ CharAt(text, i) \notin Whitespace
       /\ CharAt(text, i) # "="
    THEN IdentScan(text, i + 1, Append(buf, CharAt(text, i)))
    ELSE [index |-> i, buf |-> buf]

\* parse_ident(line, col)
ParseIdent(text, i, l, c) ==
    LET r == IdentScan(text, i + 1, <<CharAt(text, i)>>)
        col_delta == Len(r.buf) - 1
    IN  [ok |-> TRUE, index |-> r.index, d |-> col_delta + 1, err |-> NoErr,
         tok |-> Token("Ident", r.buf, Loc(c, l))]

\* the kind of the single-character tokens
PunctType(c) ==
    CASE c = "{" -> "LeftBrace"
      [] c = "}" -> "RightBrace"
      [] c = "=" -> "Equals"
      [] c = "[" -> "LeftBracket"
      [] c = "]" -> "RightBracket"
      [] c = "," -> "Comma"

Punct == {"{", "}", "=", "[", "]", ","}

-----------------------------------------------------------------------------
(* The value model and the renderer, parser.rs:9-179.                      *)

\* CoolDataType: one record shape for the five variants. A Float is the
\* decimal n / 10^e with no trailing zero in its fraction; that is the f32 a
\* literal of at most six significant digits parses to, and the digits f32's
\* Display prints for it. An Object is a function from names to values.
IntV(n) == [t |-> "Int", n |-> n, e |-> 0, s |-> <<>>, o |-> <<>>, l |-> <<>>]

FloatV(n, e) == [t |-> "Float", n |-> n, e |-> e, s |-> <<>>, o |-> <<>>, l |-> <<>>]

StringV(s) == [t |-> "String", n |-> 0, e |-> 0, s |-> s, o |-> <<>>, l |-> <<>>]

ObjectV(o) == [t |-> "Object", n |-> 0, e |-> 0, s |-> <<>>, o |-> o, l |-> <<>>]

ListV(l) == [t |-> "List", n |-> 0, e |-> 0, s |-> <<>>, o |-> <<>>, l |-> l]

\* i32::MAX, the range of CoolDataType::Int(i32)
I32Max == 2147483647

DigitVal(c) ==
    CASE c = "0" -> 0 [] c = "1" -> 1 [] c = "2" -> 2 [] c = "3" -> 3 [] c = "4" -> 4
      [] c = "5" -> 5 [] c = "6" -> 6 [] c = "7" -> 7 [] c = "8" -> 8 [] c = "9" -> 9

DigitChar(d) == <<"0", "1", "2", "3", "4", "5", "6", "7", "8", "9">>[d + 1]

RECURSIVE NumOf(_)
\* the number a sequence of decimal digits denotes
NumOf(ds) ==
    IF ds = <<>> THEN 0
    ELSE 10 * NumOf(SubSeq(ds, 1, Len(ds) - 1)) + DigitVal(ds[Len(ds)])

RECURSIVE DigitsOf(_)
\* the decimal digits of a natural number, as integer Display prints them
DigitsOf(n) ==
    IF n < 10 THEN <<DigitChar(n)>>
    ELSE Append(DigitsOf(n \div 10), DigitChar(n % 10))

RECURSIVE StripLeadingZeros(_)
StripLeadingZeros(ds) ==
    IF Len(ds) > 1 /\ ds[1] = "0" THEN StripLeadingZeros(Tail(ds)) ELSE ds

RECURSIVE DigitsGreater(_, _)
\* a > b for two digit sequences of the same length
DigitsGreater(a, b) ==
    /\ a # <<>>
    /\ \/ DigitVal(a[1]) > DigitVal(b[1])
       \/ a[1] = b[1] /\ DigitsGreater(Tail(a), Tail(b))

\* whether the digits denote a number above i32::MAX: more digits (leading
\* zeros apart) than i32::MAX has, or as many and a larger number
OverflowsI32(ds) ==
    LET sig == StripLeadingZeros(ds)
        max == DigitsOf(I32Max)
    IN  \/ Len(sig) > Len(max)
        \/ Len(sig) = Len(max) /\ DigitsGreater(sig, max)

Conv(v) == [ok |-> TRUE, v |-> v, err |-> NoErr]

ConvFail(what) ==
    [ok |-> FALSE, v |-> IntV(0), err |-> Error("InvalidInput", what, <<>>, 0, 0)]

\* CoolDataType::int(val): str::parse::<i32>
int(val) ==
    IF OverflowsI32(val) THEN ConvFail("InvalidInt") ELSE Conv(IntV(NumOf(val)))

RECURSIVE StripTrailingZeros(_)
StripTrailingZeros(ds) ==
    IF ds # <<>> /\ ds[Len(ds)] = "0"
    THEN StripTrailingZeros(SubSeq(ds, 1, Len(ds) - 1)) ELSE ds

\* the position of the first "." of a literal (0: none)
DotAt(val) ==
    IF \E i \in 1..Len(val) : val[i] = "."
    THEN CHOOSE i \in 1..Len(val) : val[i] = "." /\ \A j \in 1..(i - 1) : val[j] # "."
    ELSE 0

\* CoolDataType::float(val): str::parse::<f32> of digits "." digits
float(val) ==
    LET d == DotAt(val)
        whole == IF d = 0 THEN val ELSE SubSeq(val, 1, d - 1)
        frac == IF d = 0 THEN <<>> ELSE StripTrailingZeros(SubSeq(val, d + 1, Len(val)))
    IN  Conv(FloatV(NumOf(whole \o frac), Len(frac)))

\* add_field that keeps the value a name already has
add_field_keeps_first(o, name, value) == o @@ (name :> value)

\* add_field: HashMap::insert, the new value replaces an old one
add_field(o, name, value) == (name :> value) @@ o

\* Ok(&payload) of an accessor: v is the stored value the reference is into
AccOk(v) == [st |-> "ok", v |-> v, err |-> NoErr]

\* Err of an accessor; all are ErrorKind::InvalidInput, `what` is the message
AccErr(what) ==
    [st |-> "err", v |-> IntV(0), err |-> Error("InvalidInput", what, <<>>, 0, 0)]

\* CoolDataObject::get_field(&self, name)
get_field(o, name) ==
    IF name \in DOMAIN o THEN AccOk(o[name]) ELSE AccErr("UnknownField")

\* CoolDataList::at(&self, index)
at(l, idx) ==
    IF idx < Len(l) THEN AccOk(l[idx + 1]) ELSE AccErr("OutOfBounds")

\* a typed accessor that returns whatever value is stored
impl_get_any_variant(kind, r) == r

\* impl_get!: `let CoolDataType::$data_type(val) = self.get_field(name)? else
\* { return Err(..) }; Ok(val)`, r being what get_field returned
impl_get(kind, r) ==
    IF r.st = "err" THEN r
    ELSE IF r.v.t = kind THEN AccOk(r.v) ELSE AccErr("WrongType")

\* impl_at!: the same over self.at(index)?
impl_at(kind, r) ==
    IF r.st = "err" THEN r
    ELSE IF r.v.t = kind THEN AccOk(r.v) ELSE AccErr("WrongType")

\* get_string / get_int / get_float / get_object / get_list, by kind
get_typed(o, name, kind) == impl_get(kind, get_field(o, name))

\* string_at / int_at / float_at / object_at / list_at, by kind
typed_at(l, idx, kind) == impl_at(kind, at(l, idx))

Kinds == {"String", "Int", "Float", "Object", "List"}

RECURSIVE EscapeDebug(_)
\* the escapes of <str as Debug>::fmt for the characters of the alphabet
EscapeDebug(s) ==
    IF s = <<>> THEN <<>>
    ELSE (CASE s[1] = BACKSLASH -> <<BACKSLASH, BACKSLASH>>
            [] s[1] = QUOTE -> <<BACKSLASH, QUOTE>>
            [] s[1] = NL -> <<BACKSLASH, "n">>
            [] s[1] = TAB -> <<BACKSLASH, "t">>
            [] OTHER -> <<s[1]>>) \o EscapeDebug(Tail(s))

\* format!("{:?}", text)
DebugStr(s) == <<QUOTE>> \o EscapeDebug(s) \o <<QUOTE>>

RECURSIVE ZeroPad(_, _)
ZeroPad(ds, n) == IF Len(ds) >= n THEN ds ELSE ZeroPad(<<"0">> \o ds, n)

\* <f32 as Display>::fmt: the shortest decimal, with no "." when the
\* fraction is empty
DisplayFloat(n, e) ==
    LET ds == ZeroPad(DigitsOf(n), e + 1)
    IN  IF e = 0 THEN ds
        ELSE SubSeq(ds, 1, Len(ds) - e) \o <<".">> \o SubSeq(ds, Len(ds) - e + 1, Len(ds))

RECURSIVE DisplayValue(_), DisplayFields(_, _), DisplayItems(_)
\* impl Display for CoolDataType: the texts it can print (a HashMap iterates
\* in any order)
DisplayValue(v) ==
    CASE v.t = "Int" -> {DigitsOf(v.n)}
      [] v.t = "Float" -> {DisplayFloat(v.n, v.e)}
      [] v.t = "String" -> {DebugStr(v.s)}
      [] v.t = "Object" ->
            {<<"{", NL>> \o body \o <<"}">> : body \in DisplayFields(v.o, DOMAIN v.o)}
      [] v.t = "List" -> DisplayItems(v.l)

\* impl Display for CoolDataObject / the loop of save_to_file:
\* "{} = {}\n" for the fields `keys`, in any order
DisplayFields(o, keys) ==
    IF keys = {} THEN {<<>>}
    ELSE UNION {
           {k \o <<" ", "=", " ">> \o txt \o <<NL>> \o rest :
                txt \in DisplayValue(o[k]), rest \in DisplayFields(o, keys \ {k})}
           : k \in keys}

\* impl Display for CoolDataList: writeln!("{}") per element
DisplayItems(l) ==
    IF l = <<>> THEN {<<>>}
    ELSE {txt \o <<NL>> \o rest :
            txt \in DisplayValue(l[1]), rest \in DisplayItems(Tail(l))}

\* save_to_file: the texts it can write for an object
save_to_file(o) == DisplayFields(o, DOMAIN o)

\* impl Display for TokenType
DisplayToken(tok) ==
    CASE tok.type = "Equals" -> <<"=">>
      [] tok.type = "LeftBrace" -> <<"{">>
      [] tok.type = "RightBrace" -> <<"}">>
      [] tok.type = "Newline" -> <<NL>>
      [] tok.type = "LeftBracket" -> <<"[">>
      [] tok.type = "RightBracket" -> <<"]">>
      [] tok.type = "Comma" -> <<",">>
      [] OTHER -> DebugStr(tok.val)

-----------------------------------------------------------------------------
(* The parser, parser.rs:181-389. The call stack is explicit: a frame is   *)
(* one activation of parse, parse_object or parse_list; its last element   *)
(* is the running one.                                                     *)

\* a frame: `obj` is the `out` of parse / parse_object, `list` the `out` of
\* parse_list; `name` and `t` are the locals of the iteration that is
\* waiting for a callee
Frame(fn) == [fn |-> fn, obj |-> <<>>, list |-> <<>>, name |-> <<>>,
              t |-> Token("Newline", <<>>, Loc(0, 0))]

PIdle == [st |-> "idle", err |-> NoErr, tree |-> <<>>]

PRunning == [st |-> "running", err |-> NoErr, tree |-> <<>>]

\* an outcome of a step: the cursor, the stack and the result of parse
Cont(i, stk) == [pidx |-> i, stack |-> stk, res |-> PRunning]

\* Err(e) returned through every `?` up to the caller of parse
Fail(i, e) == [pidx |-> i, stack |-> <<>>,
               res |-> [st |-> "err", err |-> e, tree |-> <<>>]]

\* unreachable!(): the thread panics
Panic(i) == [pidx |-> i, stack |-> <<>>,
             res |-> [st |-> "panic", err |-> NoErr, tree |-> <<>>]]

\* Ok(out) returned by parse
Done(i, o) == [pidx |-> i, stack |-> <<>>,
               res |-> [st |-> "ok", err |-> NoErr, tree |-> o]]

\* Parser::peek(0) at cursor i
HasTok(i) == i < Len(tokens)

TokAt(i) == tokens[i + 1]

\* Parser::consume at the end of the tokens
EndOfTokens == Error("UnexpectedEof", "EndOfTokens", <<>>, 0, 0)

Top(stk) == stk[Len(stk)]

Pop(stk) == SubSeq(stk, 1, Len(stk) - 1)

SetTop(stk, f) == [stk EXCEPT ![Len(stk)] = f]

\* the running frame's out.add_field(name, value)
AddField(stk, name, value) ==
    SetTop(stk, [Top(stk) EXCEPT !.obj = add_field(@, name, value)])

\* the running frame's out.0.push(value)
Push(stk, value) == SetTop(stk, [Top(stk) EXCEPT !.list = Append(@, value)])

\* a call from the running frame, whose iteration has the locals name and t
Call(stk, name, t, fn) ==
    Append(SetTop(stk, [Top(stk) EXCEPT !.name = name, !.t = t]), Frame(fn))

\* the same Err with the Identifier's own location, the outer `loc`
ExpectedEqualsAtIdent(ident, next) ==
    Error("InvalidData", "ExpectedEquals", DisplayToken(next),
          ident.loc.line, ident.loc.col)

\* the Err of the let-else after an Identifier: "Exptected `=`, got `{tt}` at
\* {loc.1}:{loc.0}", tt and loc those of the token after the Identifier
ExpectedEquals(ident, next) ==
    Error("InvalidData", "ExpectedEquals", DisplayToken(next),
          next.loc.line, next.loc.col)

\* the Err of a let-else that wants a closing token: it prints t.0 and loc,
\* those of the iteration's first token
ExpectedClose(what, t) ==
    Error("InvalidData", what, DisplayToken(t), t.loc.line, t.loc.col)

\* the scalar arms of the match on the value token
ScalarValue(tok) ==
    CASE tok.type = "Int" -> int(tok.val)
      [] tok.type = "Float" -> float(tok.val)
      [] tok.type = "String" -> Conv(StringV(tok.val))

Scalar == {"Int", "Float", "String"}

\* the else branch for a scalar value, with the cursor i on the value
ScalarField(i, stk, name) ==
    IF ~HasTok(i) THEN Fail(i, EndOfTokens)
    ELSE IF TokAt(i).type \notin Scalar THEN Panic(i)
    ELSE LET c == ScalarValue(TokAt(i))
         IN  IF c.ok THEN Cont(i + 1, AddField(stk, name, c.v)) ELSE Fail(i, c.err)

\* parse_list's first statement, self.consume()?, then its frame
CallParseList(i, stk, name, t) ==
    IF HasTok(i) THEN Cont(i + 1, Call(stk, name, t, "parse_list"))
    ELSE Fail(i + 1, EndOfTokens)

\* parse, the Ident arm (342-379), with the cursor i on the Identifier t
ParseIdentArm(i, stk, t) ==
    IF ~HasTok(i + 1) THEN Panic(i + 1)
    ELSE IF TokAt(i + 1).type # "Equals" THEN Fail(i + 1, ExpectedEquals(t, TokAt(i + 1)))
    ELSE IF HasTok(i + 2) /\ TokAt(i + 2).type = "LeftBrace"
         THEN Cont(i + 3, Call(stk, t.val, t, "parse_object"))
         ELSE ScalarField(i + 2, stk, t.val)

\* parse_object, the Ident arm (283-324)
ObjectIdentArm(i, stk, t) ==
    IF ~HasTok(i + 1) THEN Panic(i + 1)
    ELSE IF TokAt(i + 1).type # "Equals" THEN Fail(i + 1, ExpectedEquals(t, TokAt(i + 1)))
    ELSE IF HasTok(i + 2) /\ TokAt(i + 2).type = "LeftBrace"
         THEN Cont(i + 3, Call(stk, t.val, t, "parse_object"))
    ELSE IF HasTok(i + 2) /\ TokAt(i + 2).type = "LeftBracket"
         THEN CallParseList(i + 3, stk, t.val, t)
         ELSE ScalarField(i + 2, stk, t.val)

\* the same iteration with a Newline arm that does not consume
ParseIterationKeepsNewline(i, stk) ==
    LET t == TokAt(i)
    IN  CASE t.type = "Ident" -> ParseIdentArm(i, stk, t)
          [] t.type = "Newline" -> Cont(i, stk)
          [] OTHER -> Panic(i)

\* one iteration of the loop of parse (337-385)
ParseIteration(i, stk) ==
    LET t == TokAt(i)
    IN  CASE t.type = "Ident" -> ParseIdentArm(i, stk, t)
          [] t.type = "Newline" -> Cont(i + 1, stk)
          [] OTHER -> Panic(i)

\* one iteration of the loop of parse_object (275-330)
ObjectIteration(i, stk) ==
    LET t == TokAt(i)
    IN  CASE t.type = "Ident" -> ObjectIdentArm(i, stk, t)
          [] t.type = "Newline" -> Cont(i + 1, stk)
          [] OTHER -> Panic(i)

\* the arms of parse_list's match (221-265) on the token t at cursor i, the
\* cursor now being j (past t when t is a Comma)
ListArm(i, j, stk, t) ==
    CASE t.type = "Ident" -> Fail(j, ExpectedClose("ExpectedRightBracket", t))
      [] t.type = "LeftBrace" -> Cont(j + 1, Call(stk, <<>>, t, "parse_object"))
      [] t.type = "LeftBracket" -> CallParseList(j, stk, <<>>, t)
      [] t.type \in Scalar ->
            LET c == ScalarValue(t)
            IN  IF c.ok THEN Cont(j + 1, Push(stk, c.v)) ELSE Fail(j, c.err)
      [] t.type = "Newline" -> Cont(j + 1, stk)
      [] OTHER -> Panic(j)

\* one iteration of the loop of parse_list (209-266): a Comma is consumed
\* and then matched
ListIteration(i, stk) ==
    LET t == TokAt(i)
    IN  ListArm(i, IF t.type = "Comma" THEN i + 1 ELSE i, stk, t)

\* what the caller does with the Object parse_object returned, the cursor
\* being i and stk the stack with the caller running
AfterParseObject(i, stk, val) ==
    LET f == Top(stk)
    IN  CASE f.fn = "parse" ->
               \* 358-365: consume a `}`, consume once more, add the field
               IF ~HasTok(i) THEN Fail(i + 1, EndOfTokens)
               ELSE IF TokAt(i).type # "RightBrace"
                    THEN Fail(i + 1, ExpectedClose("ExpectedRightBrace", f.t))
               ELSE IF ~HasTok(i + 1) THEN Fail(i + 2, EndOfTokens)
               ELSE Cont(i + 2, AddField(stk, f.name, ObjectV(val)))
          [] f.fn = "parse_object" ->
               \* 299-306: peek a `}`, consume it, add the field
               IF ~(HasTok(i) /\ TokAt(i).type = "RightBrace")
               THEN Fail(i, ExpectedClose("ExpectedRightBrace", f.t))
               ELSE Cont(i + 1, AddField(stk, f.name, ObjectV(val)))
          [] f.fn = "parse_list" ->
               \* 231-237: consume a `}`, push the element
               IF ~HasTok(i) THEN Fail(i + 1, EndOfTokens)
               ELSE IF TokAt(i).type # "RightBrace"
                    THEN Fail(i + 1, ExpectedClose("ExpectedRightBrace", f.t))
               ELSE Cont(i + 1, Push(stk, ObjectV(val)))

\* what the caller does with the List parse_list returned
AfterParseList(i, stk, val) ==
    LET f == Top(stk)
    IN  CASE f.fn = "parse_object" ->
               \* 310: add the field
               Cont(i, AddField(stk, f.name, ListV(val)))
          [] f.fn = "parse_list" ->
               \* 241-247: peek a `]`, push the element
               IF ~(HasTok(i) /\ TokAt(i).type = "RightBracket")
               THEN Fail(i, ExpectedClose("ExpectedRightBracket", f.t))
               ELSE Cont(i, Push(stk, ListV(val)))

\* the end of parse_list (267-269): consume the `]`, return the list
ListEnd(i, stk) ==
    IF ~HasTok(i) THEN Fail(i + 1, EndOfTokens)
    ELSE AfterParseList(i + 1, Pop(stk), Top(stk).list)

-----------------------------------------------------------------------------
(* The input texts: up to MaxItems pieces, one after the other, at the top *)
(* level or inside an object body or a list body.                          *)

MaxItems == 2

Items == <<
    <<"a", "=", "1", NL>>,                                    \* a flat Int field
    <<"b", " ", "=", " ", "2", ".", "5", NL>>,                \* a Float field, spaced
    <<"c", "=", QUOTE, "x", " ", "y", QUOTE, NL>>,            \* a String field
    <<"c", "=", QUOTE, BACKSLASH, QUOTE, NL>>,                \* a String with a backslash
    <<"a", "=", "2", ".", "0", NL>>,                          \* a Float of integral value, named as the Int
    <<"a", "b", "=", "2", "1", "4", "7", "4", "8", "3", "6", "4", "8", NL>>,
                                                              \* an Int literal one above i32::MAX
    <<"a", "=", "{", "b", "=", "1", "}">>,                    \* an object body, nothing after its `}`
    <<"a", "=", "{", "b", "=", "1", "}", NL>>,                \* an object body and a newline
    <<"a", "=", "[", "1", ",", "2", "]">>,                    \* a list with commas
    <<"l", "=", "[", "1", " ", "2", "]">>,                    \* a list with no separators
    <<"a", "b", " ", "1", "2">>,                              \* an Identifier with no `=`
    <<"a">>,                                                  \* an Identifier, alone
    <<"a", "=">>,                                             \* a field with no value
    <<"a", "=", "{", "b", "=", "1">>,                         \* an object body with no `}`
    <<"x", " ", "=", " ", "1", ".", "2", ".", "3">>,          \* a number with two periods
    <<QUOTE, "x">>,                                           \* a string with no closing quote
    <<"$">>,                                                  \* a character of no token
    <<"1", " ">>,                                             \* an Int element
    <<"2", ".", "5", ",">>,                                   \* a Float element and a comma
    <<QUOTE, "x", QUOTE, NL>>,                                \* a String element and a newline
    <<"{", "b", "=", "1", "}">>,                              \* an object element
    <<"[", "1", "]">>                                         \* a list element
>>

\* the text before and the text after the pieces
Contexts == <<
    [pre |-> <<>>, post |-> <<>>],
    [pre |-> <<"o", "=", "{">>, post |-> <<"}", NL>>],
    [pre |-> <<"o", "=", "{">>, post |-> <<>>],
    [pre |-> <<"o", "=", "{", "l", "=", "[", "0", " ">>, post |-> <<"]", "}", NL>>],
    [pre |-> <<"o", "=", "{", "l", "=", "[", "0", " ">>, post |-> <<>>]
>>

RECURSIVE Concat(_)
Concat(ss) == IF ss = <<>> THEN <<>> ELSE ss[1] \o Concat(Tail(ss))

Bodies ==
    UNION {{Concat([i \in 1..k |-> Items[f[i]]]) : f \in [1..k -> DOMAIN Items]}
           : k \in 0..MaxItems}

Inputs ==
    {Contexts[c].pre \o body \o Contexts[c].post : c \in DOMAIN Contexts, body \in Bodies}

-----------------------------------------------------------------------------
(* The state machine: lib.rs parse / load_from_file run tokenize to its    *)
(* end and then Parser::parse; save_to_file writes the tree parse gave.    *)

Running == [st |-> "running", err |-> NoErr]

\* no accessor has been called on the tree of this parse
NoAccess == [called |-> FALSE, self |-> ObjectV(<<>>), name |-> <<>>, index |-> 0,
             kind |-> "", res |-> AccErr("")]

\* Tokenizer::new(content) and the first two lines of tokenize
StartTokenizer(text) ==
    /\ content' = text
    /\ index' = 0
    /\ line' = 1
    /\ col' = 1
    /\ tokens' = <<>>
    /\ starts' = <<>>
    /\ lexResult' = Running
    /\ pidx' = 0
    /\ stack' = <<>>
    /\ presult' = PIdle
    /\ access' = NoAccess

Init ==
    /\ content \in Inputs
    /\ index = 0
    /\ line = 1
    /\ col = 1
    /\ tokens = <<>>
    /\ starts = <<>>
    /\ lexResult = Running
    /\ pidx = 0
    /\ stack = <<>>
    /\ presult = PIdle
    /\ pass = 1
    /\ first = <<>>
    /\ access = NoAccess

parserVars == <<pidx, stack, presult>>

InLoop == lexResult.st = "running" /\ HasChar(content, index)

\* tokenize returns Err(e), and `tokenizer.tokenize()?` returns it from parse
LexFail(e) ==
    /\ lexResult' = [st |-> "err", err |-> e]
    /\ presult' = [st |-> "err", err |-> e, tree |-> <<>>]
    /\ UNCHANGED <<pidx, stack>>

\* tokenize, c == '\n'
LexNewline ==
    /\ InLoop
    /\ CharAt(content, index) = NL
    /\ line' = line + 1
    /\ col' = 1
    /\ tokens' = Append(tokens, Token("Newline", <<>>, Loc(1, line + 1)))
    /\ starts' = Append(starts, index)
    /\ index' = index + 1
    /\ UNCHANGED <<content, lexResult, parserVars, pass, first, access>>

\* tokenize, other whitespace
LexWhitespace ==
    /\ InLoop
    /\ CharAt(content, index) # NL
    /\ CharAt(content, index) \in Whitespace
    /\ index' = index + 1
    /\ col' = col + 1
    /\ UNCHANGED <<content, line, tokens, starts, lexResult, parserVars, pass, first, access>>

\* the column after a literal whose scanner returned the delta d:
\* col += d in the literal's branch, then the col += 1 every branch ends in
ColAfterLiteral(c, d) == (c + d) + 1

\* tokenize, a literal: `let (t, d) = self.parse_...(line, col)?` and the rest
LexLiteral(r) ==
    /\ index' = r.index
    /\ IF r.ok
       THEN /\ tokens' = Append(tokens, r.tok)
            /\ starts' = Append(starts, index)
            /\ col' = ColAfterLiteral(col, r.d)
            /\ UNCHANGED <<lexResult, parserVars>>
       ELSE /\ LexFail(r.err)
            /\ UNCHANGED <<tokens, starts, col>>
    /\ UNCHANGED <<content, line, pass, first, access>>

\* tokenize, c.is_digit(10)
LexNumber ==
    /\ InLoop
    /\ CharAt(content, index) \notin Whitespace
    /\ CharAt(content, index) \in Digit
    /\ LexLiteral(ParseNumber(content, index, line, col))

\* tokenize, c.is_alphabetic()
LexIdent ==
    /\ InLoop
    /\ CharAt(content, index) \notin Whitespace \cup Digit
    /\ CharAt(content, index) \in Alphabetic
    /\ LexLiteral(ParseIdent(content, index, line, col))

\* tokenize, c == '"'
LexString ==
    /\ InLoop
    /\ CharAt(content, index) \notin Whitespace \cup Digit \cup Alphabetic
    /\ CharAt(content, index) = QUOTE
    /\ LexLiteral(ParseString(content, index, line, col))

\* tokenize, one of { } = [ ] ,
LexPunct ==
    /\ InLoop
    /\ CharAt(content, index) \notin Whitespace \cup Digit \cup Alphabetic \cup {QUOTE}
    /\ CharAt(content, index) \in Punct
    /\ tokens' = Append(tokens, Token(PunctType(CharAt(content, index)), <<>>,
                                      Loc(col, line)))
    /\ starts' = Append(starts, index)
    /\ index' = index + 1
    /\ col' = col + 1
    /\ UNCHANGED <<content, line, lexResult, parserVars, pass, first, access>>

\* tokenize, any other character
LexUnexpected ==
    /\ InLoop
    /\ CharAt(content, index) \notin
          Whitespace \cup Digit \cup Alphabetic \cup {QUOTE} \cup Punct
    /\ LexFail(Error("InvalidInput", "UnexpectedCharacter", <<>>, line, col))
    /\ UNCHANGED <<content, index, line, col, tokens, starts, pass, first, access>>

\* tokenize returns Ok(tokens); Parser::new(tokens) and the call of parse
LexReturn ==
    /\ lexResult.st = "running" /\ ~HasChar(content, index)
    /\ lexResult' = [st |-> "ok", err |-> NoErr]
    /\ pidx' = 0
    /\ stack' = <<Frame("parse")>>
    /\ presult' = PRunning
    /\ UNCHANGED <<content, index, line, col, tokens, starts, pass, first, access>>

\* the parser takes the step with outcome r
Step(r) ==
    /\ pidx' = r.pidx
    /\ stack' = r.stack
    /\ presult' = r.res
    /\ UNCHANGED <<lexVars, pass, first, access>>

InFrame(fn) == presult.st = "running" /\ stack # <<>> /\ Top(stack).fn = fn

\* parse: one iteration of `while self.peek(0).is_some()`
ParseField ==
    /\ InFrame("parse") /\ HasTok(pidx)
    /\ Step(ParseIteration(pidx, stack))

\* parse: the loop ends, Ok(out)
ParseReturn ==
    /\ InFrame("parse") /\ ~HasTok(pidx)
    /\ Step(Done(pidx, Top(stack).obj))

\* parse_object's loop condition: a token that is not `}`
ObjectLoops(i) == HasTok(i) /\ TokAt(i).type # "RightBrace"

\* parse_object: one iteration
ObjectField ==
    /\ InFrame("parse_object") /\ ObjectLoops(pidx)
    /\ Step(ObjectIteration(pidx, stack))

\* parse_object: the loop ends, Ok(out), and the caller goes on
ObjectReturn ==
    /\ InFrame("parse_object") /\ ~ObjectLoops(pidx)
    /\ Step(AfterParseObject(pidx, Pop(stack), Top(stack).obj))

\* parse_list's loop condition: a token that is not `]`
ListLoops(i) == HasTok(i) /\ TokAt(i).type # "RightBracket"

\* parse_list: one iteration
ListItem ==
    /\ InFrame("parse_list") /\ ListLoops(pidx)
    /\ Step(ListIteration(pidx, stack))

\* parse_list: the loop ends, the `]` is consumed, Ok(out), the caller goes on
ListReturn ==
    /\ InFrame("parse_list") /\ ~ListLoops(pidx)
    /\ Step(ListEnd(pidx, stack))

\* save_to_file(path, &object) of the parsed object, then load_from_file(path)
SaveAndLoad ==
    /\ pass = 1 /\ presult.st = "ok"
    /\ \E text \in save_to_file(presult.tree) : StartTokenizer(text)
    /\ pass' = 2
    /\ first' = presult.tree

RECURSIVE Containers(_)
\* the Objects and Lists of a value tree: the value itself and those in it
Containers(v) ==
    CASE v.t = "Object" -> {v} \cup UNION {Containers(v.o[n]) : n \in DOMAIN v.o}
      [] v.t = "List" -> {v} \cup UNION {Containers(v.l[k]) : k \in 1..Len(v.l)}
      [] OTHER -> {}

\* the names a caller asks for
AccessNames == {<<"a">>, <<"l">>, <<"o">>, <<"x">>}

\* a caller of parse calls get_<kind>(name) on an Object of the tree; the
\* accessors take &self
GetField ==
    /\ presult.st = "ok"
    /\ \E c \in Containers(ObjectV(presult.tree)), name \in AccessNames, kind \in Kinds :
          /\ c.t = "Object"
          /\ access' = [called |-> TRUE, self |-> c, name |-> name, index |-> 0,
                        kind |-> kind, res |-> get_typed(c.o, name, kind)]
    /\ UNCHANGED <<lexVars, parserVars, pass, first>>

\* a caller of parse calls <kind>_at(index) on a List of the tree
ListAt ==
    /\ presult.st = "ok"
    /\ \E c \in Containers(ObjectV(presult.tree)), kind \in Kinds :
          /\ c.t = "List"
          /\ \E idx \in 0..Len(c.l) :
                access' = [called |-> TRUE, self |-> c, name |-> <<>>, index |-> idx,
                           kind |-> kind, res |-> typed_at(c.l, idx, kind)]
    /\ UNCHANGED <<lexVars, parserVars, pass, first>>

Next ==
    \/ LexNewline \/ LexWhitespace \/ LexNumber \/ LexIdent \/ LexString
    \/ LexPunct \/ LexUnexpected \/ LexReturn
    \/ ParseField \/ ParseReturn \/ ObjectField \/ ObjectReturn
    \/ ListItem \/ ListReturn
    \/ SaveAndLoad
    \/ GetField \/ ListAt

Spec == Init /\ [][Next]_vars

\* the steps of tokenize and of the parser: the code between two loop
\* conditions
Run ==
    \/ LexNewline \/ LexWhitespace \/ LexNumber \/ LexIdent \/ LexString
    \/ LexPunct \/ LexUnexpected \/ LexReturn
    \/ ParseField \/ ParseReturn \/ ObjectField \/ ObjectReturn
    \/ ListItem \/ ListReturn

\* parse is one sequential call: while it has a step to take, it takes it
FairSpec == Spec /\ WF_vars(Run)

-----------------------------------------------------------------------------
(* The grammar of the format, over the tokens of the text: document,       *)
(* object_body, list_body, field and scalar. It is what the claims below   *)
(* compare the parser with; st is "ok", "eof" (the tokens end where one    *)
(* more is expected) or "bad" (any other violation).                       *)

RefOk(v, i) == [st |-> "ok", v |-> v, i |-> i]

RefEof == [st |-> "eof", v |-> <<>>, i |-> 0]

RefBad == [st |-> "bad", v |-> <<>>, i |-> 0]

RECURSIVE RefValue(_), RefFields(_, _, _), RefList(_, _)
\* fieldvalue / listitem at cursor i
RefValue(i) ==
    IF ~HasTok(i) THEN RefEof
    ELSE CASE TokAt(i).type \in Scalar ->
                 LET c == ScalarValue(TokAt(i))
                 IN  IF c.ok THEN RefOk(c.v, i + 1) ELSE RefBad
           [] TokAt(i).type = "LeftBrace" ->
                 LET r == RefFields(i + 1, <<>>, TRUE)
                 IN  IF r.st = "ok" THEN RefOk(ObjectV(r.v), r.i) ELSE r
           [] TokAt(i).type = "LeftBracket" -> RefList(i + 1, <<>>)
           [] OTHER -> RefBad

\* (field | Newline)* from cursor i, closed by `}` when inBody and by the
\* end of the tokens otherwise; acc is the fields so far, the last value of
\* a name replacing the earlier ones
RefFields(i, acc, inBody) ==
    IF ~HasTok(i) THEN (IF inBody THEN RefEof ELSE RefOk(acc, i))
    ELSE CASE TokAt(i).type = "Newline" -> RefFields(i + 1, acc, inBody)
           [] TokAt(i).type = "RightBrace" /\ inBody -> RefOk(acc, i + 1)
           [] TokAt(i).type = "Ident" ->
                 IF ~HasTok(i + 1) THEN RefEof
                 ELSE IF TokAt(i + 1).type # "Equals" THEN RefBad
                 ELSE LET r == RefValue(i + 2)
                      IN  IF r.st = "ok"
                          THEN RefFields(r.i, (TokAt(i).val :> r.v) @@ acc, inBody)
                          ELSE r
           [] OTHER -> RefBad

\* (listitem (',' | Newline)?)* ']' from cursor i
RefList(i, acc) ==
    IF ~HasTok(i) THEN RefEof
    ELSE CASE TokAt(i).type \in {"Newline", "Comma"} -> RefList(i + 1, acc)
           [] TokAt(i).type = "RightBracket" -> RefOk(ListV(acc), i + 1)
           [] OTHER ->
                 LET r == RefValue(i)
                 IN  IF r.st = "ok" THEN RefList(r.i, Append(acc, r.v)) ELSE r

\* the document the tokens spell
RefDoc == RefFields(0, <<>>, FALSE)

\* parse has returned or panicked (pass 1: on the input text)
Finished == presult.st \in {"ok", "err", "panic"}

Parsed == pass = 1 /\ lexResult.st = "ok" /\ Finished

TokenTypes == {tokens[k].type : k \in 1..Len(tokens)}

\* the nesting depth after the first k tokens
Depth(k) ==
    Cardinality({j \in 1..k : tokens[j].type \in {"LeftBrace", "LeftBracket"}})
    - Cardinality({j \in 1..k : tokens[j].type \in {"RightBrace", "RightBracket"}})

\* the 1-indexed line and column of the character at cursor i of the text
TrueLine(i) == 1 + Cardinality({j \in 1..i : content[j] = NL})

TrueCol(i) ==
    LET nls == {j \in 1..i : content[j] = NL}
        last == IF nls = {} THEN 0 ELSE CHOOSE j \in nls : \A k \in nls : k <= j
    IN  (i + 1) - last

-----------------------------------------------------------------------------
(* The claims.                                                             *)

\* the top-level `}` tokens: those after which the nesting depth is 0
TopLevelClose == {k \in 1..Len(tokens) : tokens[k].type = "RightBrace" /\ Depth(k) = 0}

\* C1: a document of top-level fields, at least one of them an object body
\* (`name = { ...fields... }`, its `}` possibly the last token), parses to
\* the Object the grammar gives it: the name maps to an Object with exactly
\* the fields of the body, and the tokens after the `}` are parsed as the
\* next top-level fields. Documents with lists are left to C2 and C4.
C1_TopLevelObjectBody ==
    (/\ Parsed
     /\ RefDoc.st = "ok"
     /\ TopLevelClose # {}
     /\ "LeftBracket" \notin TokenTypes)
    => presult.st = "ok" /\ presult.tree = RefDoc.v

\* the values of the fields of the document the tokens spell
TopValues == {RefDoc.v[n] : n \in DOMAIN RefDoc.v}

\* C2: a document with a top-level field whose value is a bracketed list of
\* scalars parses to the Object the grammar gives it, the field a List of the
\* scalars in source order, commas or not (the grammar skips the commas).
C2_TopLevelList ==
    (/\ Parsed
     /\ RefDoc.st = "ok"
     /\ \E v \in TopValues :
            v.t = "List" /\ \A k \in 1..Len(v.l) : v.l[k].t \in Scalar)
    => presult.st = "ok" /\ presult.tree = RefDoc.v

\* every Int literal denotes a number of at most i32::MAX
IntsFit == \A k \in 1..Len(tokens) : tokens[k].type = "Int" => ~OverflowsI32(tokens[k].val)

RECURSIVE FlatFrom(_, _)
\* from cursor i the tokens are fields `Ident = scalar` separated by newlines
FlatFrom(i, needNewline) ==
    IF ~HasTok(i) THEN TRUE
    ELSE IF TokAt(i).type = "Newline" THEN FlatFrom(i + 1, FALSE)
    ELSE /\ ~needNewline
         /\ HasTok(i + 2)
         /\ TokAt(i).type = "Ident"
         /\ TokAt(i + 1).type = "Equals"
         /\ TokAt(i + 2).type \in Scalar
         /\ FlatFrom(i + 3, TRUE)

FieldNames == {tokens[k].val : k \in {j \in 1..Len(tokens) : tokens[j].type = "Ident"}}

\* the value token of the last field called name
LastValueToken(name) ==
    LET occ == {k \in 1..Len(tokens) : tokens[k].type = "Ident" /\ tokens[k].val = name}
    IN  tokens[(CHOOSE k \in occ : \A j \in occ : j <= k) + 2]

\* the result of parse is an Object with one entry per field name, of the
\* variant of the last occurrence's literal and with its content
FlatResult ==
    /\ presult.st = "ok"
    /\ DOMAIN presult.tree = FieldNames
    /\ \A name \in FieldNames :
          LET tok == LastValueToken(name)
              v == presult.tree[name]
          IN  /\ v.t = tok.type
              /\ tok.type = "String" => v.s = tok.val
              /\ tok.type = "Int" => v.n = NumOf(tok.val)
              /\ tok.type = "Float" => v = float(tok.val).v

\* C3 as stated: every document made only of fields `name = scalar`
\* separated by newlines parses to an Object with one entry per distinct
\* name, of the variant of the literal's token kind, the last occurrence of a
\* name giving its value.
C3_FlatDocument_AsStated ==
    (Parsed /\ FlatFrom(0, FALSE)) => FlatResult

\* C3, amended: the same for the documents whose Int literals are at most
\* i32::MAX (2147483647).
C3_FlatDocument ==
    (Parsed /\ FlatFrom(0, FALSE) /\ IntsFit) => FlatResult

\* C3's case: a flat document parsed, a name occurring twice with literals of
\* two kinds
C3_Witness ==
    /\ Parsed /\ FlatFrom(0, FALSE) /\ IntsFit /\ presult.st = "ok"
    /\ \E j, k \in 1..Len(tokens) :
          /\ j < k
          /\ tokens[j].type = "Ident" /\ tokens[k].type = "Ident"
          /\ tokens[j].val = tokens[k].val
          /\ tokens[j + 2].type # tokens[k + 2].type

RECURSIVE HasListField(_)
\* some field of the object o, or of an object nested in it, is a List
HasListField(o) ==
    \E n \in DOMAIN o :
        \/ o[n].t = "List"
        \/ o[n].t = "Object" /\ HasListField(o[n].o)

\* C4: a document in which a field inside an object body has a list body as
\* its value parses to the Object the grammar gives it: the List holds
\* exactly the elements e1..en in source order, commas, newlines or nothing
\* between them, and parsing goes on after the `]`. Every top-level `}` here
\* is followed by a newline.
C4_ListInObjectBody ==
    (/\ Parsed
     /\ RefDoc.st = "ok"
     /\ \E v \in TopValues : v.t = "Object" /\ HasListField(v.o)
     /\ \A k \in TopLevelClose : k < Len(tokens) /\ tokens[k + 1].type = "Newline")
    => presult.st = "ok" /\ presult.tree = RefDoc.v

\* the parser is about to run an iteration of parse or parse_object whose
\* first token is an Identifier followed by a token that is not `=`
AtIdentWithoutEquals ==
    /\ presult.st = "running" /\ stack # <<>>
    /\ \/ Top(stack).fn = "parse"
       \/ Top(stack).fn = "parse_object"
    /\ HasTok(pidx + 1)
    /\ TokAt(pidx).type = "Ident"
    /\ TokAt(pidx + 1).type # "Equals"

C6_NeverAborts == presult.st # "panic"

\* C7: when the tokens end where the grammar expects one more (after a
\* field's Identifier, after `=`, in an object body or a list body not yet
\* closed) parse returns UnexpectedEof; when they end after a complete
\* document it does not.
C7_UnexpectedEof ==
    Parsed =>
        /\ RefDoc.st = "eof" =>
              presult.st = "err" /\ presult.err.kind = "UnexpectedEof"
        /\ RefDoc.st = "ok" =>
              ~(presult.st = "err" /\ presult.err.kind = "UnexpectedEof")

\* C8: when a numeric literal has a second `.`, tokenize fails with an error
\* whose (line, column) is the position of that second `.` (the cursor stops
\* on it), and parse returns that error.
C8_DoublePeriodLocation ==
    (lexResult.st = "err" /\ lexResult.err.what = "DoublePeriod")
    => /\ lexResult.err.line = TrueLine(index)
       /\ lexResult.err.col = TrueCol(index)
       /\ presult.st = "err"

\* C9: for every text tokenize accepts, every token other than Newline
\* records the 1-indexed line and column at which it starts in the text.
C9_TokenLocations ==
    lexResult.st = "ok" =>
        \A k \in 1..Len(tokens) :
            tokens[k].type # "Newline" =>
                /\ tokens[k].loc.line = TrueLine(starts[k])
                /\ tokens[k].loc.col = TrueCol(starts[k])

\* C10: for a parsed object whose fields all have scalar values, the text
\* save_to_file writes for it parses again, to an Object with the same names
\* and, for each, a value of the same variant and content.
C10_RoundTripFlat ==
    (/\ pass = 2 /\ Finished
     /\ \A n \in DOMAIN first : first[n].t \in Scalar)
    => presult.st = "ok" /\ presult.tree = first


\* C11: a typed accessor returns Ok with exactly the stored value if and only
\* if the name is present (the index is below the length) and the stored
\* variant is the kind asked for; an absent name or an index >= length gives
\* the unknown-field / out-of-bounds error whatever the kind, a present
\* element of another variant the wrong-type error, and the container is
\* still in the tree, as it was, after the call.
C11_TypedAccessors ==
    access.called =>
        LET c == access.self
            r == access.res
            isObj == c.t = "Object"
            present == IF isObj THEN access.name \in DOMAIN c.o
                       ELSE access.index < Len(c.l)
            stored == IF isObj THEN c.o[access.name] ELSE c.l[access.index + 1]
        IN  /\ r.st = "ok" <=> (present /\ stored.t = access.kind)
            /\ r.st = "ok" => r.v = stored
            /\ ~present =>
                  r.st = "err" /\ r.err.what = (IF isObj THEN "UnknownField"
                                                ELSE "OutOfBounds")
            /\ (present /\ stored.t # access.kind) =>
                  r.st = "err" /\ r.err.what = "WrongType"
            /\ presult.st = "ok" /\ c \in Containers(ObjectV(presult.tree))

\* C11's case: the last element of a List of the tree was asked for, by its
\* kind, and returned
C11_Witness ==
    /\ access.called /\ access.self.t = "List"
    /\ Len(access.self.l) >= 1
    /\ access.index = Len(access.self.l) - 1
    /\ access.res.st = "ok"


\* a step of tokenize's loop returns an error or moves the character cursor on
LexProgress == InLoop => (lexResult'.st = "err" \/ index' > index)

\* a step of the parser's loops (an iteration, or the part of one before or
\* after a nested call) ends the parse or moves the token cursor on
ParseProgress ==
    presult.st = "running" => (presult'.st \in {"ok", "err", "panic"} \/ pidx' > pidx)

\* within one run of tokenize and parse the cursors never decrease
CursorsMonotone == pass' = pass => (index' >= index /\ pidx' >= pidx)

\* C12: every iteration of tokenize's loop returns an error or increases the
\* character cursor, every iteration of the loops of parse, parse_object and
\* parse_list ends the parse or increases the token cursor, the cursors
\* never decrease, and tokenize and parse stop on every input.
C12_ProgressAndTermination ==
    /\ [][LexProgress /\ ParseProgress /\ CursorsMonotone]_vars
    /\ (~Finished) ~> Finished

\* C12's case: the parser is in a loop nested in two others, after several
\* iterations
C12_Witness ==
    /\ presult.st = "running"
    /\ Len(stack) >= 3
    /\ Top(stack).fn = "parse_list"
    /\ pidx >= 6

====
